---- MODULE Spec2Model ----
(***************************************************************************)
(* Model of the REST API component of ipfs-cluster (api/rest/restapi.go).  *)
(*                                                                         *)
(* One inbound HTTP request is followed from the moment the router hands   *)
(* it to its handler until the handler returns.  A handler is a pair of    *)
(* operators: XBegin (everything up to and including the blocking          *)
(* rpcClient.CallContext) and XEnd (everything after the call returned).   *)
(* The backing cluster service and the RPC client are the environment:     *)
(* RPCReturn, RPCAbort and Cancel.                                         *)
(*                                                                         *)
(* addHandler (POST /add) hands the request to adderutils, which issues    *)
(* the calls and writes the response itself; it is not part of Next.       *)
(*                                                                         *)
(* Strings that the code splits on "," are represented by the sequence of  *)
(* their comma-separated fields: strings.Split(s, ",") always yields at    *)
(* least one field, so the empty string is <<"">> and "data,bogus" is      *)
(* <<"data", "bogus">>.                                                    *)
(***************************************************************************)
EXTENDS Integers, Sequences, FiniteSets, TLC

VARIABLES
    req,        \* the inbound request (path variables, query values, body)
    pc,         \* "ready" | "waiting" | "returned" | "done"
    calls,      \* the remote calls issued so far, in order
    aborted,    \* TRUE once the pending call was aborted by its context
    ctxDone,    \* TRUE once r.Context() is cancelled (disconnect / timeout)
    rpcErr,     \* the error CallContext returned
    rpcReply,   \* the value CallContext stored through the reply pointer
    responses   \* the responses written with SendResponse, in order

vars == <<req, pc, calls, aborted, ctxDone, rpcErr, rpcReply, responses>>

---------------------------------------------------------------------------
(* Bounds of the model                                                     *)

MaxTokens == 2      \* comma-separated fields in a filter query value
MaxPins == 2        \* pins returned by Cluster.Pins
MaxInfos == 2       \* records returned by a *AllLocal call

SeqsUpTo(S, n) == UNION {[1..k -> S] : k \in 0..n}

---------------------------------------------------------------------------
(* Go's integer operators | and & on non-negative values                   *)

RECURSIVE BitAnd(_, _)
BitAnd(a, b) ==
    IF a = 0 \/ b = 0 THEN 0
    ELSE (a % 2) * (b % 2) + 2 * BitAnd(a \div 2, b \div 2)

RECURSIVE BitOr(_, _)
BitOr(a, b) ==
    IF a = 0 THEN b
    ELSE IF b = 0 THEN a
    ELSE (IF (a % 2) + (b % 2) > 0 THEN 1 ELSE 0) + 2 * BitOr(a \div 2, b \div 2)

---------------------------------------------------------------------------
(* HTTP statuses and the status policy marker                              *)

StatusOK == 200
StatusBadRequest == 400
StatusNotFound == 404
StatusInternalServerError == 500
StatusServiceUnavailable == 503
SetStatusAutomatically == -1

---------------------------------------------------------------------------
(* Errors.  kind is what actually happened at the backend, text is what    *)
(* err.Error() returns, code is a status the backend encoded (0: none).    *)

NoErr == [kind |-> "nil", text |-> "", code |-> 0]

ErrorsNew(text) == [kind |-> "input", text |-> text, code |-> 0]

ErrNotFoundText == "pin is not part of the pinset"

ContextCanceled == [kind |-> "cancel", text |-> "context canceled", code |-> 0]

\* The errors the backing service can answer a call with.  An unknown target
\* (kind "notfound") reaches this layer as text only, and the text is the
\* backend's to choose.
BackendErrors ==
    { [kind |-> "notfound", text |-> ErrNotFoundText, code |-> 0],
      [kind |-> "notfound", text |-> "Pin Is Not Part Of The Pinset", code |-> 0],
      [kind |-> "notfound", text |-> "cannot unpin: pin not found", code |-> 0],
      [kind |-> "domain", text |-> "internal error", code |-> 0],
      [kind |-> "domain", text |-> "peer unavailable",
       code |-> StatusServiceUnavailable] }

---------------------------------------------------------------------------
(* Pin types (api.PinType) and tracker statuses (api.TrackerStatus)        *)

BadType == 1
DataType == 2
MetaType == 4
ClusterDAGType == 8
ShardType == 16
AllType == DataType + MetaType + ClusterDAGType + ShardType

PinTypeFromString(str) ==
    CASE str = "data" -> DataType
      [] str = "meta" -> MetaType
      [] str = "clusterdag" -> ClusterDAGType
      [] str = "shard" -> ShardType
      [] str = "all" -> AllType
      [] str = "" -> AllType
      [] OTHER -> BadType

TrackerStatusUndefined == 0

TrackerStatusTable(tok) ==
    CASE tok = "queued" -> 1
      [] tok = "pinning" -> 2
      [] tok = "pinned" -> 4
      [] tok = "error" -> 8
      [] tok = "unpinned" -> 16
      [] OTHER -> TrackerStatusUndefined

RECURSIVE TrackerStatusFold(_, _, _)
TrackerStatusFold(fields, i, acc) ==
    IF i > Len(fields) THEN acc
    ELSE TrackerStatusFold(fields, i + 1, BitOr(acc, TrackerStatusTable(fields[i])))

TrackerStatusFromString(fields) == TrackerStatusFold(fields, 1, TrackerStatusUndefined)

\* filterStr != ""
NonEmptyString(fields) == fields # <<"">>

---------------------------------------------------------------------------
(* Identifiers                                                             *)

ValidCids == {"QmA", "QmB"}
Hashes == ValidCids \cup {"not-a-cid"}

PeerIDs == {1, 2}

\* peer.Encode: the textual form of a peer identifier
PeerEncode(p) ==
    CASE p = 1 -> "QmPeer1"
      [] p = 2 -> "QmPeer2"
      [] OTHER -> ""

\* peer.Decode: ok is FALSE when the text is no peer identifier
PeerDecode(s) ==
    IF \E p \in PeerIDs : PeerEncode(p) = s
    THEN [ok |-> TRUE, pid |-> CHOOSE p \in PeerIDs : PeerEncode(p) = s]
    ELSE [ok |-> FALSE, pid |-> 0]

PeerStrings == {"QmPeer1", "QmPeer2", "garbage", ""}

KeyTypes == {"ipfs", "ipns", "ipld"}
ValidPaths == {"QmA/file"}
Paths == ValidPaths \cup {"%%bad"}

MetricNames == {"ping", "freespace"}

---------------------------------------------------------------------------
(* Domain values exchanged with the backing service                        *)

Pins == [cid : ValidCids, type : {DataType, MetaType, ShardType}]
ZeroPin == [cid |-> "", type |-> 0]

PinInfos == [cid : ValidCids, peer : PeerIDs, status : {4, 8}]
ZeroPinInfo == [cid |-> "", peer |-> 0, status |-> 0]

\* api.PinInfo.ToGlobal: the one-entry GlobalPinInfo of a PinInfo
ToGlobal(pi) == [cid |-> pi.cid, peer_map |-> (PeerEncode(pi.peer) :> pi)]

GlobalPinInfos ==
    {ToGlobal(pi) : pi \in {x \in PinInfos : x.cid = "QmA"}}
    \cup {[cid |-> "QmB",
           peer_map |-> [k \in {"QmPeer1", "QmPeer2"} |->
                            [cid |-> "QmB", peer |-> PeerDecode(k).pid, status |-> 4]]]}
ZeroGlobalPinInfo == [cid |-> "", peer_map |-> <<>>]

RepoGCs == [peer : PeerIDs, keys : {<<>>, <<"QmA">>}]
ZeroRepoGC == [peer |-> 0, keys |-> <<>>]

GlobalRepoGCs ==
    {[peer_map |-> [k \in ks |-> [peer |-> PeerDecode(k).pid, keys |-> <<"QmB">>]]] :
        ks \in {{"QmPeer1"}, {"QmPeer1", "QmPeer2"}}}
ZeroGlobalRepoGC == [peer_map |-> <<>>]

Opaque(method) == [of |-> method, zero |-> FALSE]
ZeroOpaque(method) == [of |-> method, zero |-> TRUE]

PinMethods == {"Pin", "Unpin", "PinPath", "UnpinPath", "PinGet"}

\* What a successful call of the method stores through the reply pointer
Successes(method) ==
    CASE method = "Pins" -> SeqsUpTo(Pins, MaxPins)
      [] method \in PinMethods -> Pins
      [] method \in {"StatusAllLocal", "RecoverAllLocal"} -> SeqsUpTo(PinInfos, MaxInfos)
      [] method \in {"StatusAll", "RecoverAll"} ->
            SeqsUpTo(GlobalPinInfos, MaxInfos)
      [] method \in {"StatusLocal", "RecoverLocal"} -> PinInfos
      [] method \in {"Status", "Recover"} -> GlobalPinInfos
      [] method = "RepoGCLocal" -> RepoGCs
      [] method = "RepoGC" -> GlobalRepoGCs
      [] OTHER -> {Opaque(method)}

\* The reply variable's value when the call failed: Go's zero value
Zero(method) ==
    CASE method = "Pins" -> <<>>
      [] method \in PinMethods -> ZeroPin
      [] method \in {"StatusAllLocal", "RecoverAllLocal", "StatusAll", "RecoverAll"} -> <<>>
      [] method \in {"StatusLocal", "RecoverLocal"} -> ZeroPinInfo
      [] method \in {"Status", "Recover"} -> ZeroGlobalPinInfo
      [] method = "RepoGCLocal" -> ZeroRepoGC
      [] method = "RepoGC" -> ZeroGlobalRepoGC
      [] OTHER -> ZeroOpaque(method)

---------------------------------------------------------------------------
(* common.API: the response writer and the *OrFail parameter parsers       *)

\* A nil interface value is <<>>, a non-nil one is <<value>>.
Nil == <<>>
Some(v) == <<v>>

\* The status the automatic policy derives from an error
AutomaticStatus(err) ==
    IF err.code # 0 THEN err.code ELSE StatusInternalServerError

\* common.API.SendResponse(w, status, err, resp): the response it writes
SendResponse(status, err, resp) ==
    IF err # NoErr
    THEN [status |-> IF status = SetStatusAutomatically \/ status < StatusBadRequest
                     THEN AutomaticStatus(err) ELSE status,
          error |-> err.text,
          body |-> Nil]
    ELSE [status |-> IF status = SetStatusAutomatically THEN StatusOK ELSE status,
          error |-> "",
          body |-> resp]

\* What a handler has done when it blocks or returns: the responses it wrote
\* and the remote calls it issued.
Reject(resp) == [resps |-> <<resp>>, calls |-> <<>>]
Issue(call) == [resps |-> <<>>, calls |-> <<call>>]

\* ParseCidOrFail: the pin for the {hash} path variable, or a 400 and nil
ParseCidOrFail(r) ==
    IF r.hash \in ValidCids
    THEN [ok |-> TRUE, cid |-> r.hash, resps |-> <<>>]
    ELSE [ok |-> FALSE, cid |-> "",
          resps |-> <<SendResponse(StatusBadRequest,
                                   ErrorsNew("error decoding Cid"), Nil)>>]

\* ParsePinPathOrFail: the pin path for {keyType}/{path}, or a 400 and nil
ParsePinPathOrFail(r) ==
    IF r.path \in ValidPaths
    THEN [ok |-> TRUE, pinpath |-> [ns |-> r.keyType, path |-> r.path], resps |-> <<>>]
    ELSE [ok |-> FALSE, pinpath |-> [ns |-> "", path |-> ""],
          resps |-> <<SendResponse(StatusBadRequest,
                                   ErrorsNew("error parsing path"), Nil)>>]

\* ParsePidOrFail: the peer for the {peer} path variable, or a 400 and ""
ParsePidOrFail(r) ==
    IF PeerDecode(r.peer).ok
    THEN [ok |-> TRUE, pid |-> PeerDecode(r.peer).pid, resps |-> <<>>]
    ELSE [ok |-> FALSE, pid |-> 0,
          resps |-> <<SendResponse(StatusBadRequest,
                                   ErrorsNew("error decoding Peer ID"), Nil)>>]

---------------------------------------------------------------------------
(* rpcClient.CallContext(ctx, "", svc, method, args, &reply)               *)

RequestCtx == "r.Context()"
NoArgs == "struct{}{}"

CallContext(ctx, svc, method, args) ==
    [ctx |-> ctx, svc |-> svc, method |-> method, args |-> args]

---------------------------------------------------------------------------
(* Handlers without parameters: one call, automatic status                 *)

\* idHandler calling under context.Background() instead of r.Context()
idHandlerBegin_background(r) ==
    Issue(CallContext("context.Background()", "Cluster", "ID", NoArgs))

idHandlerBegin(r) == Issue(CallContext(RequestCtx, "Cluster", "ID", NoArgs))
idHandlerEnd(r, err, id) == <<SendResponse(SetStatusAutomatically, err, Some(id))>>

versionHandlerBegin(r) == Issue(CallContext(RequestCtx, "Cluster", "Version", NoArgs))
versionHandlerEnd(r, err, v) == <<SendResponse(SetStatusAutomatically, err, Some(v))>>

graphHandlerBegin(r) == Issue(CallContext(RequestCtx, "Cluster", "ConnectGraph", NoArgs))
graphHandlerEnd(r, err, graph) == <<SendResponse(SetStatusAutomatically, err, Some(graph))>>

metricsHandlerBegin(r) ==
    Issue(CallContext(RequestCtx, "PeerMonitor", "LatestMetrics", r.name))
metricsHandlerEnd(r, err, metrics) ==
    <<SendResponse(SetStatusAutomatically, err, Some(metrics))>>

metricNamesHandlerBegin(r) ==
    Issue(CallContext(RequestCtx, "PeerMonitor", "MetricNames", NoArgs))
metricNamesHandlerEnd(r, err, metricNames) ==
    <<SendResponse(SetStatusAutomatically, err, Some(metricNames))>>

alertsHandlerBegin(r) == Issue(CallContext(RequestCtx, "Cluster", "Alerts", NoArgs))
alertsHandlerEnd(r, err, alerts) == <<SendResponse(SetStatusAutomatically, err, Some(alerts))>>

peerListHandlerBegin(r) == Issue(CallContext(RequestCtx, "Cluster", "Peers", NoArgs))
peerListHandlerEnd(r, err, peers) == <<SendResponse(SetStatusAutomatically, err, Some(peers))>>

---------------------------------------------------------------------------
(* Peers                                                                   *)

\* json.Decoder.Decode into peerAddBody: fails when the body is not JSON
JSONDecode(body) == [ok |-> body.json, PeerID |-> IF body.json THEN body.peer_id ELSE ""]

\* peerAddHandler without the check of peer.Decode's error
peerAddHandlerBegin_noPidCheck(r) ==
    LET addInfo == JSONDecode(r.body)
    IN  IF ~addInfo.ok
        THEN Reject(SendResponse(StatusBadRequest,
                                 ErrorsNew("error decoding request body"), Nil))
        ELSE Issue(CallContext(RequestCtx, "Cluster", "PeerAdd",
                               PeerDecode(addInfo.PeerID).pid))

peerAddHandlerBegin(r) ==
    LET addInfo == JSONDecode(r.body)
        dec == PeerDecode(addInfo.PeerID)
    IN  IF ~addInfo.ok
        THEN Reject(SendResponse(StatusBadRequest,
                                 ErrorsNew("error decoding request body"), Nil))
        ELSE IF ~dec.ok
        THEN Reject(SendResponse(StatusBadRequest,
                                 ErrorsNew("error decoding peer_id"), Nil))
        ELSE Issue(CallContext(RequestCtx, "Cluster", "PeerAdd", dec.pid))
peerAddHandlerEnd(r, err, id) == <<SendResponse(SetStatusAutomatically, err, Some(id))>>

peerRemoveHandlerBegin(r) ==
    LET p == ParsePidOrFail(r)
    IN  IF p.ok
        THEN Issue(CallContext(RequestCtx, "Cluster", "PeerRemove", p.pid))
        ELSE [resps |-> p.resps, calls |-> <<>>]
peerRemoveHandlerEnd(r, err, reply) == <<SendResponse(SetStatusAutomatically, err, Nil)>>

---------------------------------------------------------------------------
(* Pin and unpin                                                           *)

pinHandlerBegin(r) ==
    LET pin == ParseCidOrFail(r)
    IN  IF pin.ok
        THEN Issue(CallContext(RequestCtx, "Cluster", "Pin", pin.cid))
        ELSE [resps |-> pin.resps, calls |-> <<>>]
\* pinHandler answering a failed call with a fixed 404, as allocationHandler does
pinHandlerEnd_fixed404(r, err, pinObj) ==
    IF err # NoErr
    THEN <<SendResponse(StatusNotFound, err, Nil)>>
    ELSE <<SendResponse(SetStatusAutomatically, NoErr, Some(pinObj))>>

pinHandlerEnd(r, err, pinObj) == <<SendResponse(SetStatusAutomatically, err, Some(pinObj))>>

unpinHandlerBegin(r) ==
    LET pin == ParseCidOrFail(r)
    IN  IF pin.ok
        THEN Issue(CallContext(RequestCtx, "Cluster", "Unpin", pin.cid))
        ELSE [resps |-> pin.resps, calls |-> <<>>]
\* unpinHandler without the return after its 404 response
unpinHandlerEnd_noReturn(r, err, pinObj) ==
    IF err # NoErr /\ err.text = ErrNotFoundText
    THEN <<SendResponse(StatusNotFound, err, Nil),
           SendResponse(SetStatusAutomatically, err, Some(pinObj))>>
    ELSE <<SendResponse(SetStatusAutomatically, err, Some(pinObj))>>

unpinHandlerEnd(r, err, pinObj) ==
    IF err # NoErr /\ err.text = ErrNotFoundText
    THEN <<SendResponse(StatusNotFound, err, Nil)>>
    ELSE <<SendResponse(SetStatusAutomatically, err, Some(pinObj))>>

pinPathHandlerBegin(r) ==
    LET pinpath == ParsePinPathOrFail(r)
    IN  IF pinpath.ok
        THEN Issue(CallContext(RequestCtx, "Cluster", "PinPath", pinpath.pinpath))
        ELSE [resps |-> pinpath.resps, calls |-> <<>>]
pinPathHandlerEnd(r, err, pin) == <<SendResponse(SetStatusAutomatically, err, Some(pin))>>

unpinPathHandlerBegin(r) ==
    LET pinpath == ParsePinPathOrFail(r)
    IN  IF pinpath.ok
        THEN Issue(CallContext(RequestCtx, "Cluster", "UnpinPath", pinpath.pinpath))
        ELSE [resps |-> pinpath.resps, calls |-> <<>>]
\* unpinPathHandler without the comparison against state.ErrNotFound
unpinPathHandlerEnd_noOverride(r, err, pin) ==
    <<SendResponse(SetStatusAutomatically, err, Some(pin))>>

unpinPathHandlerEnd(r, err, pin) ==
    IF err # NoErr /\ err.text = ErrNotFoundText
    THEN <<SendResponse(StatusNotFound, err, Nil)>>
    ELSE <<SendResponse(SetStatusAutomatically, err, Some(pin))>>

---------------------------------------------------------------------------
(* Allocations                                                             *)

\* for _, f := range strings.Split(filterStr, ",") { filter |= PinTypeFromString(f) }
RECURSIVE allocationsFilter(_, _, _)
allocationsFilter(fields, i, filter) ==
    IF i > Len(fields) THEN filter
    ELSE allocationsFilter(fields, i + 1, BitOr(filter, PinTypeFromString(fields[i])))

\* the selection loop testing filter == pin.Type instead of filter&pin.Type > 0
RECURSIVE allocationsSelect_equal(_, _, _, _)
allocationsSelect_equal(pins, filter, i, outPins) ==
    IF i > Len(pins) THEN outPins
    ELSE allocationsSelect_equal(pins, filter, i + 1,
                                 IF filter = pins[i].type
                                 THEN Append(outPins, pins[i]) ELSE outPins)

\* for _, pin := range pins { if filter&pin.Type > 0 { outPins = append(outPins, pin) } }
RECURSIVE allocationsSelect(_, _, _, _)
allocationsSelect(pins, filter, i, outPins) ==
    IF i > Len(pins) THEN outPins
    ELSE allocationsSelect(pins, filter, i + 1,
                           IF BitAnd(filter, pins[i].type) > 0
                           THEN Append(outPins, pins[i]) ELSE outPins)

allocationsHandlerBegin(r) ==
    LET filter == allocationsFilter(r.filter, 1, 0)
    IN  IF filter = BadType
        THEN Reject(SendResponse(StatusBadRequest, ErrorsNew("invalid filter value"), Nil))
        ELSE Issue(CallContext(RequestCtx, "Cluster", "Pins", NoArgs))
allocationsHandlerEnd(r, err, pins) ==
    LET filter == allocationsFilter(r.filter, 1, 0)
        outPins == IF filter = AllType THEN pins
                   ELSE allocationsSelect(pins, filter, 1, <<>>)
    IN  <<SendResponse(SetStatusAutomatically, err, Some(outPins))>>

allocationHandlerBegin(r) ==
    LET pin == ParseCidOrFail(r)
    IN  IF pin.ok
        THEN Issue(CallContext(RequestCtx, "Cluster", "PinGet", pin.cid))
        ELSE [resps |-> pin.resps, calls |-> <<>>]
allocationHandlerEnd(r, err, pinResp) ==
    IF err # NoErr
    THEN <<SendResponse(StatusNotFound, err, Nil)>>
    ELSE <<SendResponse(SetStatusAutomatically, NoErr, Some(pinResp))>>

---------------------------------------------------------------------------
(* Local results reshaped to the global form                               *)

repoGCToGlobal(r) == [peer_map |-> (PeerEncode(r.peer) :> r)]

\* pinInfosToGlobal filling the output from its end
pinInfosToGlobal_reversed(pInfos) ==
    [i \in 1..Len(pInfos) |-> ToGlobal(pInfos[Len(pInfos) + 1 - i])]

pinInfosToGlobal(pInfos) == [i \in 1..Len(pInfos) |-> ToGlobal(pInfos[i])]

---------------------------------------------------------------------------
(* Status, recover and repo GC: a local and a global variant each          *)

\* statusAllHandler rejecting every undefined filter, the empty string included
statusAllHandlerBegin_noEmptyCheck(r) ==
    LET filter == TrackerStatusFromString(r.filter)
    IN  IF filter = TrackerStatusUndefined
        THEN Reject(SendResponse(StatusBadRequest, ErrorsNew("invalid filter value"), Nil))
        ELSE IF r.local = "true"
        THEN Issue(CallContext(RequestCtx, "Cluster", "StatusAllLocal", filter))
        ELSE Issue(CallContext(RequestCtx, "Cluster", "StatusAll", filter))

statusAllHandlerBegin(r) ==
    LET filter == TrackerStatusFromString(r.filter)
    IN  IF filter = TrackerStatusUndefined /\ NonEmptyString(r.filter)
        THEN Reject(SendResponse(StatusBadRequest, ErrorsNew("invalid filter value"), Nil))
        ELSE IF r.local = "true"
        THEN Issue(CallContext(RequestCtx, "Cluster", "StatusAllLocal", filter))
        ELSE Issue(CallContext(RequestCtx, "Cluster", "StatusAll", filter))
statusAllHandlerEnd(r, err, reply) ==
    IF err # NoErr
    THEN <<SendResponse(SetStatusAutomatically, err, Nil)>>
    ELSE IF r.local = "true"
    THEN <<SendResponse(SetStatusAutomatically, NoErr, Some(pinInfosToGlobal(reply)))>>
    ELSE <<SendResponse(SetStatusAutomatically, NoErr, Some(reply))>>

statusHandlerBegin(r) ==
    LET pin == ParseCidOrFail(r)
    IN  IF ~pin.ok
        THEN [resps |-> pin.resps, calls |-> <<>>]
        ELSE IF r.local = "true"
        THEN Issue(CallContext(RequestCtx, "Cluster", "StatusLocal", pin.cid))
        ELSE Issue(CallContext(RequestCtx, "Cluster", "Status", pin.cid))
statusHandlerEnd(r, err, pinInfo) ==
    IF r.local = "true"
    THEN <<SendResponse(SetStatusAutomatically, err, Some(ToGlobal(pinInfo)))>>
    ELSE <<SendResponse(SetStatusAutomatically, err, Some(pinInfo))>>

recoverAllHandlerBegin(r) ==
    IF r.local = "true"
    THEN Issue(CallContext(RequestCtx, "Cluster", "RecoverAllLocal", NoArgs))
    ELSE Issue(CallContext(RequestCtx, "Cluster", "RecoverAll", NoArgs))
recoverAllHandlerEnd(r, err, reply) ==
    IF r.local = "true"
    THEN <<SendResponse(SetStatusAutomatically, err, Some(pinInfosToGlobal(reply)))>>
    ELSE <<SendResponse(SetStatusAutomatically, err, Some(reply))>>

recoverHandlerBegin(r) ==
    LET pin == ParseCidOrFail(r)
    IN  IF ~pin.ok
        THEN [resps |-> pin.resps, calls |-> <<>>]
        ELSE IF r.local = "true"
        THEN Issue(CallContext(RequestCtx, "Cluster", "RecoverLocal", pin.cid))
        ELSE Issue(CallContext(RequestCtx, "Cluster", "Recover", pin.cid))
recoverHandlerEnd(r, err, pinInfo) ==
    IF r.local = "true"
    THEN <<SendResponse(SetStatusAutomatically, err, Some(ToGlobal(pinInfo)))>>
    ELSE <<SendResponse(SetStatusAutomatically, err, Some(pinInfo))>>

\* repoGCHandler's local branch falling through to the global call
repoGCHandlerBegin_fallThrough(r) ==
    IF r.local = "true"
    THEN [resps |-> <<>>,
          calls |-> <<CallContext(RequestCtx, "Cluster", "RepoGCLocal", NoArgs),
                      CallContext(RequestCtx, "Cluster", "RepoGC", NoArgs)>>]
    ELSE Issue(CallContext(RequestCtx, "Cluster", "RepoGC", NoArgs))

repoGCHandlerBegin(r) ==
    IF r.local = "true"
    THEN Issue(CallContext(RequestCtx, "Cluster", "RepoGCLocal", NoArgs))
    ELSE Issue(CallContext(RequestCtx, "Cluster", "RepoGC", NoArgs))
repoGCHandlerEnd(r, err, reply) ==
    IF r.local = "true"
    THEN <<SendResponse(SetStatusAutomatically, err, Some(repoGCToGlobal(reply)))>>
    ELSE <<SendResponse(SetStatusAutomatically, err, Some(reply))>>

---------------------------------------------------------------------------
(* Requests                                                                *)

Locals == {"", "true", "false"}

TypeFilterTokens == {"", "data", "meta", "shard", "all", "bogus"}
StatusFilterTokens == {"", "pinned", "error", "bogus"}

FilterStrings(tokens) == UNION {[1..k -> tokens] : k \in 1..MaxTokens}

Bodies ==
    {[json |-> FALSE, peer_id |-> ""]}
    \cup {[json |-> TRUE, peer_id |-> p] : p \in PeerStrings}

BaseReq ==
    [op |-> "", hash |-> "", local |-> "", filter |-> <<"">>,
     body |-> [json |-> FALSE, peer_id |-> ""], peer |-> "",
     keyType |-> "", path |-> "", name |-> ""]

Requests ==
    {[BaseReq EXCEPT !.op = o] :
        o \in {"ID", "Version", "Peers", "ConnectionGraph", "Alerts", "MetricNames"}}
    \cup {[BaseReq EXCEPT !.op = "Metrics", !.name = n] : n \in MetricNames}
    \cup {[BaseReq EXCEPT !.op = "PeerAdd", !.body = b] : b \in Bodies}
    \cup {[BaseReq EXCEPT !.op = "PeerRemove", !.peer = p] : p \in PeerStrings}
    \cup {[BaseReq EXCEPT !.op = o, !.hash = h] :
            o \in {"Pin", "Unpin", "Allocation"}, h \in Hashes}
    \cup {[BaseReq EXCEPT !.op = o, !.keyType = k, !.path = q] :
            o \in {"PinPath", "UnpinPath"}, k \in KeyTypes, q \in Paths}
    \cup {[BaseReq EXCEPT !.op = "Allocations", !.filter = f] :
            f \in FilterStrings(TypeFilterTokens)}
    \cup {[BaseReq EXCEPT !.op = "StatusAll", !.local = l, !.filter = f] :
            l \in Locals, f \in FilterStrings(StatusFilterTokens)}
    \cup {[BaseReq EXCEPT !.op = o, !.hash = h, !.local = l] :
            o \in {"Status", "Recover"}, h \in Hashes, l \in Locals}
    \cup {[BaseReq EXCEPT !.op = o, !.local = l] :
            o \in {"RecoverAll", "RepoGC"}, l \in Locals}

---------------------------------------------------------------------------
(* The state machine                                                       *)

Init ==
    /\ req \in Requests
    /\ pc = "ready"
    /\ calls = <<>>
    /\ aborted = FALSE
    /\ ctxDone = FALSE
    /\ rpcErr = NoErr
    /\ rpcReply = <<>>
    /\ responses = <<>>

\* The handler of route op runs up to its blocking call, or to its return
\* when it issues none.
Begin(op, b) ==
    /\ pc = "ready"
    /\ req.op = op
    /\ responses' = responses \o b.resps
    /\ calls' = calls \o b.calls
    /\ pc' = IF b.calls = <<>> THEN "done" ELSE "waiting"
    /\ UNCHANGED <<req, aborted, ctxDone, rpcErr, rpcReply>>

\* The handler of route op runs from the return of its call to its own return.
End(op, e) ==
    /\ pc = "returned"
    /\ req.op = op
    /\ responses' = responses \o e
    /\ pc' = "done"
    /\ UNCHANGED <<req, calls, aborted, ctxDone, rpcErr, rpcReply>>

idHandler ==
    \/ Begin("ID", idHandlerBegin(req))
    \/ End("ID", idHandlerEnd(req, rpcErr, rpcReply))

versionHandler ==
    \/ Begin("Version", versionHandlerBegin(req))
    \/ End("Version", versionHandlerEnd(req, rpcErr, rpcReply))

graphHandler ==
    \/ Begin("ConnectionGraph", graphHandlerBegin(req))
    \/ End("ConnectionGraph", graphHandlerEnd(req, rpcErr, rpcReply))

metricsHandler ==
    \/ Begin("Metrics", metricsHandlerBegin(req))
    \/ End("Metrics", metricsHandlerEnd(req, rpcErr, rpcReply))

metricNamesHandler ==
    \/ Begin("MetricNames", metricNamesHandlerBegin(req))
    \/ End("MetricNames", metricNamesHandlerEnd(req, rpcErr, rpcReply))

alertsHandler ==
    \/ Begin("Alerts", alertsHandlerBegin(req))
    \/ End("Alerts", alertsHandlerEnd(req, rpcErr, rpcReply))

peerListHandler ==
    \/ Begin("Peers", peerListHandlerBegin(req))
    \/ End("Peers", peerListHandlerEnd(req, rpcErr, rpcReply))

peerAddHandler ==
    \/ Begin("PeerAdd", peerAddHandlerBegin(req))
    \/ End("PeerAdd", peerAddHandlerEnd(req, rpcErr, rpcReply))

peerRemoveHandler ==
    \/ Begin("PeerRemove", peerRemoveHandlerBegin(req))
    \/ End("PeerRemove", peerRemoveHandlerEnd(req, rpcErr, rpcReply))

pinHandler ==
    \/ Begin("Pin", pinHandlerBegin(req))
    \/ End("Pin", pinHandlerEnd(req, rpcErr, rpcReply))

unpinHandler ==
    \/ Begin("Unpin", unpinHandlerBegin(req))
    \/ End("Unpin", unpinHandlerEnd(req, rpcErr, rpcReply))

pinPathHandler ==
    \/ Begin("PinPath", pinPathHandlerBegin(req))
    \/ End("PinPath", pinPathHandlerEnd(req, rpcErr, rpcReply))

unpinPathHandler ==
    \/ Begin("UnpinPath", unpinPathHandlerBegin(req))
    \/ End("UnpinPath", unpinPathHandlerEnd(req, rpcErr, rpcReply))

allocationsHandler ==
    \/ Begin("Allocations", allocationsHandlerBegin(req))
    \/ End("Allocations", allocationsHandlerEnd(req, rpcErr, rpcReply))

allocationHandler ==
    \/ Begin("Allocation", allocationHandlerBegin(req))
    \/ End("Allocation", allocationHandlerEnd(req, rpcErr, rpcReply))

statusAllHandler ==
    \/ Begin("StatusAll", statusAllHandlerBegin(req))
    \/ End("StatusAll", statusAllHandlerEnd(req, rpcErr, rpcReply))

statusHandler ==
    \/ Begin("Status", statusHandlerBegin(req))
    \/ End("Status", statusHandlerEnd(req, rpcErr, rpcReply))

recoverAllHandler ==
    \/ Begin("RecoverAll", recoverAllHandlerBegin(req))
    \/ End("RecoverAll", recoverAllHandlerEnd(req, rpcErr, rpcReply))

recoverHandler ==
    \/ Begin("Recover", recoverHandlerBegin(req))
    \/ End("Recover", recoverHandlerEnd(req, rpcErr, rpcReply))

repoGCHandler ==
    \/ Begin("RepoGC", repoGCHandlerBegin(req))
    \/ End("RepoGC", repoGCHandlerEnd(req, rpcErr, rpcReply))

---------------------------------------------------------------------------
(* The environment: the client's context and the remote call               *)

\* The call the handler is blocked in
Pending == calls[Len(calls)]

Outcomes(method) ==
    {[err |-> NoErr, reply |-> v] : v \in Successes(method)}
    \cup {[err |-> e, reply |-> Zero(method)] : e \in BackendErrors}

\* The client disconnects or the request times out before the call returned.
Cancel ==
    /\ pc \in {"ready", "waiting"}
    /\ ~ctxDone
    /\ ctxDone' = TRUE
    /\ UNCHANGED <<req, pc, calls, aborted, rpcErr, rpcReply, responses>>

\* The backing service answers the pending call.
RPCReturn ==
    /\ pc = "waiting"
    /\ ~(ctxDone /\ Pending.ctx = RequestCtx)
    /\ \E out \in Outcomes(Pending.method) :
          /\ rpcErr' = out.err
          /\ rpcReply' = out.reply
    /\ pc' = "returned"
    /\ UNCHANGED <<req, calls, aborted, ctxDone, responses>>

\* The pending call observes that its context is done and returns its error.
RPCAbort ==
    /\ pc = "waiting"
    /\ ctxDone
    /\ Pending.ctx = RequestCtx
    /\ rpcErr' = ContextCanceled
    /\ rpcReply' = Zero(Pending.method)
    /\ aborted' = TRUE
    /\ pc' = "returned"
    /\ UNCHANGED <<req, calls, ctxDone, responses>>

Next ==
    \/ idHandler
    \/ versionHandler
    \/ graphHandler
    \/ metricsHandler
    \/ metricNamesHandler
    \/ alertsHandler
    \/ peerListHandler
    \/ peerAddHandler
    \/ peerRemoveHandler
    \/ pinHandler
    \/ unpinHandler
    \/ pinPathHandler
    \/ unpinPathHandler
    \/ allocationsHandler
    \/ allocationHandler
    \/ statusAllHandler
    \/ statusHandler
    \/ recoverAllHandler
    \/ recoverHandler
    \/ repoGCHandler
    \/ Cancel
    \/ RPCReturn
    \/ RPCAbort

Spec == Init /\ [][Next]_vars

---------------------------------------------------------------------------
(* Properties                                                              *)

\* C1: GET /allocations with a filter in which some field is not a pin-type
\* name (alone or beside valid ones) is answered 400 and issues no call; any
\* other filter, the empty one included, is not rejected.
C1_UnrecognizedTokenRejected ==
    LET unrecognized ==
            \E i \in 1..Len(req.filter) : PinTypeFromString(req.filter[i]) = BadType
    IN  (req.op = "Allocations" /\ pc # "ready") =>
            IF unrecognized
            THEN /\ calls = <<>>
                 /\ Len(responses) = 1
                 /\ responses[1].status = StatusBadRequest
            ELSE /\ Len(calls) = 1
                 /\ calls[1].method = "Pins"

\* C2 as stated: DELETE /pins/... whose Unpin/UnpinPath call failed because the
\* target is unknown is answered 404, whatever text the error carries.
C2_UnknownTargetIs404 ==
    (pc = "done" /\ req.op \in {"Unpin", "UnpinPath"} /\ rpcErr.kind = "notfound") =>
        \A i \in 1..Len(responses) : responses[i].status = StatusNotFound

\* C2 amended: a failed Unpin/UnpinPath call is answered 404 exactly when the
\* error's text equals the text of state.ErrNotFound; with any other text the
\* status is the automatic policy's.
C2_SentinelTextIs404 ==
    (pc = "done" /\ req.op \in {"Unpin", "UnpinPath"} /\ Len(calls) = 1 /\ rpcErr # NoErr) =>
        /\ Len(responses) = 1
        /\ responses[1].status =
              IF rpcErr.text = ErrNotFoundText
              THEN StatusNotFound ELSE AutomaticStatus(rpcErr)
        /\ responses[1].error = rpcErr.text

C2_Witness ==
    /\ pc = "done"
    /\ req.op = "UnpinPath"
    /\ rpcErr.kind = "notfound"
    /\ rpcErr.text = ErrNotFoundText
    /\ Len(responses) = 1
    /\ responses[1].status = StatusNotFound

\* C3: a successful response of a local-mode call has the global shape: every
\* record the local call returned is emitted as a map with the single key
\* peer.Encode(record.Peer) holding that record, and a list keeps its length
\* and order.
C3_LocalHasGlobalShape ==
    LET OneEntry(g, rec) ==
            /\ DOMAIN g.peer_map = {PeerEncode(rec.peer)}
            /\ g.peer_map[PeerEncode(rec.peer)] = rec
    IN  (pc = "done" /\ req.local = "true" /\ Len(calls) = 1 /\ rpcErr = NoErr) =>
            /\ Len(responses) = 1
            /\ responses[1].status = StatusOK
            /\ Len(responses[1].body) = 1
            /\ LET out == responses[1].body[1]
               IN  CASE req.op \in {"StatusAll", "RecoverAll"} ->
                          /\ calls[1].method =
                                IF req.op = "StatusAll" THEN "StatusAllLocal"
                                ELSE "RecoverAllLocal"
                          /\ Len(out) = Len(rpcReply)
                          /\ \A i \in 1..Len(rpcReply) :
                                /\ out[i].cid = rpcReply[i].cid
                                /\ OneEntry(out[i], rpcReply[i])
                     [] req.op \in {"Status", "Recover"} ->
                          /\ calls[1].method =
                                IF req.op = "Status" THEN "StatusLocal"
                                ELSE "RecoverLocal"
                          /\ out.cid = rpcReply.cid
                          /\ OneEntry(out, rpcReply)
                     [] req.op = "RepoGC" ->
                          /\ calls[1].method = "RepoGCLocal"
                          /\ OneEntry(out, rpcReply)
                     [] OTHER -> FALSE

C3_Witness ==
    /\ pc = "done"
    /\ req.op = "RecoverAll"
    /\ req.local = "true"
    /\ rpcErr = NoErr
    /\ Len(rpcReply) = 2
    /\ rpcReply[1].peer # rpcReply[2].peer
    /\ Len(responses) = 1
    /\ responses[1].status = StatusOK
    /\ Len(responses[1].body[1]) = 2

\* C4: POST /peers with a body that is not JSON, or whose peer_id is no peer
\* identifier, is answered 400 with a message naming which of the two, and no
\* call is issued; PeerAdd is called only with the decoded identifier.
C4_PeerAddValidated ==
    (req.op = "PeerAdd" /\ pc # "ready") =>
        IF ~req.body.json
        THEN /\ calls = <<>>
             /\ Len(responses) = 1
             /\ responses[1].status = StatusBadRequest
             /\ responses[1].error = "error decoding request body"
        ELSE IF \A p \in PeerIDs : PeerEncode(p) # req.body.peer_id
        THEN /\ calls = <<>>
             /\ Len(responses) = 1
             /\ responses[1].status = StatusBadRequest
             /\ responses[1].error = "error decoding peer_id"
        ELSE /\ Len(calls) = 1
             /\ calls[1].method = "PeerAdd"
             /\ PeerEncode(calls[1].args) = req.body.peer_id

C4_Witness ==
    /\ req.op = "PeerAdd"
    /\ pc = "done"
    /\ req.body.json
    /\ req.body.peer_id = "garbage"
    /\ calls = <<>>
    /\ Len(responses) = 1
    /\ responses[1].status = StatusBadRequest

\* C5: after a successful Pins call returning L under an accepted mask M, the
\* body of GET /allocations is L when M is the "all" mask, and otherwise the
\* subsequence of L, in order, of the pins whose type shares a bit with M.
C5_TypeFilterApplied ==
    (req.op = "Allocations" /\ pc = "done" /\ Len(calls) = 1 /\ rpcErr = NoErr) =>
        LET M == allocationsFilter(req.filter, 1, 0)
            L == rpcReply
            InMask(pin) == BitAnd(pin.type, M) # 0
        IN  /\ Len(responses) = 1
            /\ responses[1].status = StatusOK
            /\ Len(responses[1].body) = 1
            /\ responses[1].body[1] = IF M = AllType THEN L ELSE SelectSeq(L, InMask)
            /\ Len(responses[1].body[1]) <= Len(L)

C5_Witness ==
    /\ req.op = "Allocations"
    /\ pc = "done"
    /\ rpcErr = NoErr
    /\ req.filter = <<"data", "meta">>
    /\ Len(rpcReply) = 2
    /\ rpcReply[1].type = ShardType
    /\ rpcReply[2].type = MetaType
    /\ Len(responses) = 1
    /\ responses[1].body[1] = <<rpcReply[2]>>

\* C6: a handler never issues more than one remote call; once it has passed
\* its validation step it has issued exactly one, and when validation failed
\* (a 400 response) it has issued none.  A failed call is not retried.
C6_ExactlyOneCall ==
    LET valid ==
            CASE req.op \in {"Pin", "Unpin", "Allocation", "Status", "Recover"} ->
                    req.hash \in ValidCids
              [] req.op \in {"PinPath", "UnpinPath"} -> req.path \in ValidPaths
              [] req.op = "PeerAdd" ->
                    req.body.json /\ \E p \in PeerIDs : PeerEncode(p) = req.body.peer_id
              [] req.op = "PeerRemove" -> \E p \in PeerIDs : PeerEncode(p) = req.peer
              [] req.op = "Allocations" -> allocationsFilter(req.filter, 1, 0) # BadType
              [] req.op = "StatusAll" ->
                    req.filter = <<"">> \/
                    TrackerStatusFromString(req.filter) # TrackerStatusUndefined
              [] OTHER -> TRUE
    IN  /\ Len(calls) <= 1
        /\ pc # "ready" => Len(calls) = (IF valid THEN 1 ELSE 0)
        /\ (pc = "done" /\ calls = <<>>) =>
              /\ Len(responses) = 1
              /\ responses[1].status = StatusBadRequest

C6_Witness ==
    /\ pc = "done"
    /\ req.op = "StatusAll"
    /\ req.local = "true"
    /\ rpcErr.kind = "domain"
    /\ Len(calls) = 1
    /\ Len(responses) = 1
    /\ responses[1].status = StatusInternalServerError

\* C7 as stated: outside unpin and unpin-by-path, a failed remote call is
\* answered with the status the automatic policy derives from the error.
C7_OnlyUnpinOverrides ==
    (pc = "done" /\ Len(calls) = 1 /\ rpcErr # NoErr
        /\ req.op \notin {"Unpin", "UnpinPath"}) =>
        \A i \in 1..Len(responses) : responses[i].status = AutomaticStatus(rpcErr)

\* C7 amended: GET /allocations/{id} answers every failed call with 404; for
\* every operation other than it, unpin and unpin-by-path, a failed call is
\* answered with the status of the automatic policy.
C7_AllocationOverridesToo ==
    (pc = "done" /\ Len(calls) = 1 /\ rpcErr # NoErr
        /\ req.op \notin {"Unpin", "UnpinPath"}) =>
        /\ Len(responses) = 1
        /\ responses[1].status =
              IF req.op = "Allocation" THEN StatusNotFound ELSE AutomaticStatus(rpcErr)

C7_Witness ==
    /\ pc = "done"
    /\ req.op = "Allocation"
    /\ rpcErr.kind = "domain"
    /\ rpcErr.code = StatusServiceUnavailable
    /\ Len(responses) = 1
    /\ responses[1].status = StatusNotFound

\* C8: every remote call runs under the request's context; when the request
\* is cancelled before its call returned, the call is aborted with the
\* context's error and the handler ends with a failure status and no body.
C8_CallBoundByRequestContext ==
    /\ \A i \in 1..Len(calls) : calls[i].ctx = RequestCtx
    /\ (pc \in {"returned", "done"} /\ ctxDone /\ calls # <<>>) =>
          /\ aborted
          /\ rpcErr = ContextCanceled
    /\ (pc = "done" /\ ctxDone /\ calls # <<>>) =>
          /\ Len(responses) = 1
          /\ responses[1].status >= StatusBadRequest
          /\ responses[1].body = Nil

C8_Witness ==
    /\ pc = "done"
    /\ req.op = "RepoGC"
    /\ req.local = "true"
    /\ ctxDone
    /\ aborted
    /\ Len(responses) = 1
    /\ responses[1].status = StatusInternalServerError
    /\ responses[1].error = "context canceled"

\* C9: GET /pins with a non-empty filter that yields no tracker status is
\* answered 400 and issues no call; otherwise StatusAll or StatusAllLocal is
\* called with the parsed mask, which for the empty filter is the undefined one.
C9_StatusFilterValidated ==
    (req.op = "StatusAll" /\ pc # "ready") =>
        LET filter == TrackerStatusFromString(req.filter)
        IN  IF req.filter # <<"">> /\ filter = TrackerStatusUndefined
            THEN /\ calls = <<>>
                 /\ Len(responses) = 1
                 /\ responses[1].status = StatusBadRequest
            ELSE /\ Len(calls) = 1
                 /\ calls[1].method =
                       IF req.local = "true" THEN "StatusAllLocal" ELSE "StatusAll"
                 /\ calls[1].args = filter
                 /\ req.filter = <<"">> => calls[1].args = TrackerStatusUndefined

C9_Witness ==
    /\ req.op = "StatusAll"
    /\ pc = "done"
    /\ req.filter = <<"bogus">>
    /\ calls = <<>>
    /\ Len(responses) = 1
    /\ responses[1].status = StatusBadRequest

\* C10: a handler has written no response before it returns and exactly one
\* when it has returned, on every path.
C10_ExactlyOneResponse ==
    Len(responses) = (IF pc = "done" THEN 1 ELSE 0)

C10_Witness ==
    /\ pc = "done"
    /\ req.op = "Unpin"
    /\ rpcErr.text = ErrNotFoundText
    /\ Len(responses) = 1
    /\ responses[1].status = StatusNotFound

====
